---------------------------- MODULE Spec2Model ----------------------------
(***************************************************************************)
(* A model of sixtyfps_runtime/corelib/abi/datastructures.rs:              *)
(*   - Color and its ARGB conversions                     (ColorSpec)      *)
(*   - CachedRenderingData and the backend's cache store  (CacheSpec)      *)
(*   - PathData, build_path and the lyon event iterator   (PathSpec)       *)
(*   - LyonPathIterator over both forms of PathData       (IterSpec)       *)
(*   - LyonPathIterator::fitted                           (FitSpec)        *)
(*   - LayoutInfo                                         (LayoutSpec)     *)
(*   - the item tree and its traversal                    (Spec)           *)
(* Each specification moves its own group of variables and leaves the      *)
(* other groups at their initial value.                                    *)
(***************************************************************************)
EXTENDS Integers, Sequences, FiniteSets, TLC

VARIABLES
    \* ---- Color ----
    color_src,      \* how `color` was constructed, with the constructor's arguments
    color,          \* a Color value {red, green, blue, alpha}
    color_out,      \* the result of the last accessor called on `color`
    \* ---- CachedRenderingData ----
    cached,         \* item -> CachedRenderingData {cache_index, cache_ok}
    rendering_cache,\* the backend's RenderingCache: a sequence of low-level primitives
    primitive,      \* item -> the value its rendering_primitive() currently yields
    last_read,      \* the last low_level_rendering_primitive call: its receiver and result
    \* ---- PathData ----
    elements,       \* the PathElements of a PathData::Elements consumed so far by build_path
    path_builder,   \* build_path's lyon path builder (Path::builder().with_svg())
    path_phase,     \* "building" | "built" | "iterated"
    lyon_path,      \* the lyon Path that build_path returned
    path_events,    \* the events LyonPathIterator::iter() yielded
    \* ---- PathData iteration ----
    path_data,      \* the PathData: None, Elements or Events with coordinates
    lyon_path_iterator, \* what path_data.iter() returned, after the fitted calls made on it
    boxed_iter,     \* the boxed iterator the last iter() call returned
    yielded,        \* the events that iterator has yielded
    iter_status,    \* of that iterator: "none" | "live" | "end" | "panic"
    iter_runs,      \* the earlier iterations of the same LyonPathIterator value
    fits,           \* the fitted calls made, in call order
    \* ---- LayoutInfo ----
    layout_info,    \* a LayoutInfo value
    layout_src,     \* where it came from: "default" | "layouting_info"
    layout_was,     \* where the value held before came from
    \* ---- item tree traversal ----
    item_tree,      \* the root component's item tree: a sequence of ItemTreeNode
    model,          \* the element counts of the models behind the repeated regions
    repeater,       \* region of the root component -> child components instantiated
    stack,          \* the call stack of the traversal in progress
    calls,          \* the visit_children_item calls of the traversal, in call order
    visited,        \* the visit_item calls the visitor received, in call order
    dispatched,     \* the child nodes the engine has handled: visit_item or visit_dynamic
    pc              \* "idle" | "running" | "done" | "panic"

colorVars == <<color_src, color, color_out>>
cacheVars == <<cached, rendering_cache, primitive, last_read>>
pathVars == <<elements, path_builder, path_phase, lyon_path, path_events>>
iterVars == <<path_data, lyon_path_iterator, boxed_iter, yielded, iter_status, iter_runs, fits>>
layoutVars == <<layout_info, layout_src, layout_was>>
treeVars == <<item_tree, model, repeater, stack, calls, visited, dispatched, pc>>
vars == <<colorVars, cacheVars, pathVars, iterVars, layoutVars, treeVars>>
notColor == <<cacheVars, pathVars, iterVars, layoutVars, treeVars>>
notCache == <<colorVars, pathVars, iterVars, layoutVars, treeVars>>
notPath == <<colorVars, cacheVars, iterVars, layoutVars, treeVars>>
notIter == <<colorVars, cacheVars, pathVars, layoutVars, treeVars>>
notLayout == <<colorVars, cacheVars, pathVars, iterVars, treeVars>>
notTree == <<colorVars, cacheVars, pathVars, iterVars, layoutVars>>

None == [tag |-> "None"]
Some(v) == [tag |-> "Some", value |-> v]

(***************************************************************************)
(* Color                                                                   *)
(***************************************************************************)

\* A u32 is kept as two 16-bit halves, value = hi * 2^16 + lo, so that every
\* intermediate number stays in the integers the checker can represent.
Pow2(n) == IF n = 0 THEN 1 ELSE IF n = 8 THEN 256 ELSE IF n = 16 THEN 65536 ELSE 16777216

U32(hi, lo) == [hi |-> hi, lo |-> lo]

\* encoded >> n on a u32, for n in {0, 8, 16, 24}
Shr(e, n) ==
    IF n >= 16
    THEN U32(0, e.hi \div Pow2(n - 16))
    ELSE U32(e.hi \div Pow2(n), (e.hi % Pow2(n)) * Pow2(16 - n) + e.lo \div Pow2(n))

\* (v as u8): truncation of a u32 to its low 8 bits
AsU8(e) == e.lo % 256

\* (b as u32) << n for a byte b, n in {0, 8, 16, 24}
ShlByte(b, n) ==
    IF n >= 16 THEN U32(b * Pow2(n - 16), 0) ELSE U32(0, b * Pow2(n))

RECURSIVE BitOr(_, _, _)
\* bitwise or of two naturals below 2^bits
BitOr(a, b, bits) ==
    IF bits = 0 THEN 0
    ELSE (IF (a % 2 = 1) \/ (b % 2 = 1) THEN 1 ELSE 0)
         + 2 * BitOr(a \div 2, b \div 2, bits - 1)

Or32(a, b) == U32(BitOr(a.hi, b.hi, 16), BitOr(a.lo, b.lo, 16))

from_argb_encoded_swapped(encoded) ==
    [red   |-> AsU8(Shr(encoded, 24)),
     green |-> AsU8(Shr(encoded, 16)),
     blue  |-> AsU8(Shr(encoded, 8)),
     alpha |-> AsU8(encoded)]

from_argb_encoded(encoded) ==
    [red   |-> AsU8(Shr(encoded, 16)),
     green |-> AsU8(Shr(encoded, 8)),
     blue  |-> AsU8(encoded),
     alpha |-> AsU8(Shr(encoded, 24))]

from_rgba(red, green, blue, alpha) ==
    [red |-> red, green |-> green, blue |-> blue, alpha |-> alpha]

from_rgb(red, green, blue) == from_rgba(red, green, blue, 255)

as_rgba_u8(self) == <<self.red, self.green, self.blue, self.alpha>>

\* The mutant of as_argb_encoded: the bytes are packed as 0xRRGGBBAA.
as_argb_encoded_rgba(self) ==
    Or32(Or32(Or32(ShlByte(self.red, 24), ShlByte(self.green, 16)),
              ShlByte(self.blue, 8)),
         ShlByte(self.alpha, 0))

as_argb_encoded(self) ==
    Or32(Or32(Or32(ShlByte(self.red, 16), ShlByte(self.green, 8)),
              ShlByte(self.blue, 0)),
         ShlByte(self.alpha, 24))

\* impl From<u32> for Color
Color_from(encoded) == from_argb_encoded(encoded)

\* #[derive(Default)] on Color
Color_default == [red |-> 0, green |-> 0, blue |-> 0, alpha |-> 0]

\* The bytes the inputs are drawn from: the ends of the range, the bytes of the
\* documented example 0xFF102030, and values with the top bit set or clear.
SampleBytes == {0, 1, 16, 32, 48, 127, 128, 255}
SampleU32 == {U32(a * 256 + r, g * 256 + b) : a, r, g, b \in SampleBytes}

ColorInit ==
    /\ color_src = [ctor |-> "default"]
    /\ color = Color_default
    /\ color_out = [fn |-> "none"]

FromArgbEncoded ==
    /\ color_src.ctor = "default"
    /\ \E e \in SampleU32 :
        /\ color_src' = [ctor |-> "from_argb_encoded", encoded |-> e]
        /\ color' = from_argb_encoded(e)
        /\ color_out' = [fn |-> "none"]
    /\ UNCHANGED notColor

FromU32 ==
    /\ color_src.ctor = "default"
    /\ \E e \in SampleU32 :
        /\ color_src' = [ctor |-> "from", encoded |-> e]
        /\ color' = Color_from(e)
        /\ color_out' = [fn |-> "none"]
    /\ UNCHANGED notColor

FromRgba ==
    /\ color_src.ctor = "default"
    /\ \E r, g, b, a \in SampleBytes :
        /\ color_src' = [ctor |-> "from_rgba", rgba |-> <<r, g, b, a>>]
        /\ color' = from_rgba(r, g, b, a)
        /\ color_out' = [fn |-> "none"]
    /\ UNCHANGED notColor

FromRgb ==
    /\ color_src.ctor = "default"
    /\ \E r, g, b \in SampleBytes :
        /\ color_src' = [ctor |-> "from_rgb", rgba |-> <<r, g, b, 255>>]
        /\ color' = from_rgb(r, g, b)
        /\ color_out' = [fn |-> "none"]
    /\ UNCHANGED notColor

AsRgbaU8 ==
    /\ color_out' = [fn |-> "as_rgba_u8", value |-> as_rgba_u8(color)]
    /\ UNCHANGED <<color_src, color>>
    /\ UNCHANGED notColor

AsArgbEncoded ==
    /\ color_out' = [fn |-> "as_argb_encoded", value |-> as_argb_encoded(color)]
    /\ UNCHANGED <<color_src, color>>
    /\ UNCHANGED notColor

(***************************************************************************)
(* CachedRenderingData                                                     *)
(***************************************************************************)

NumItems == 2
MaxCache == 3
Items == 1 .. NumItems
\* what an item's rendering_primitive() may currently yield
Primitives == {"NoContents", "Rectangle"}

\* #[derive(Default)] on CachedRenderingData: Cell<usize> 0, Cell<bool> false
CachedRenderingData_default_ok == [cache_index |-> 0, cache_ok |-> TRUE]

CachedRenderingData_default == [cache_index |-> 0, cache_ok |-> FALSE]

\* RenderingCache::entry_at: indices count from 0; an index past the end panics
entry_at(cache, idx) ==
    IF idx < Len(cache) THEN cache[idx + 1] ELSE "panic"

\* The mutants of low_level_rendering_primitive: one trusts cache_index without
\* looking at cache_ok, one reads the first entry instead of the indexed one.
low_level_rendering_primitive_unchecked(self, cache) ==
    [ret |-> Some(entry_at(cache, self.cache_index)), entry_at |-> <<self.cache_index>>]

low_level_rendering_primitive_first(self, cache) ==
    IF ~self.cache_ok
    THEN [ret |-> None, entry_at |-> <<>>]
    ELSE [ret |-> Some(entry_at(cache, 0)), entry_at |-> <<0>>]

\* Returns the Option it yields, together with the entry_at calls it made.
low_level_rendering_primitive(self, cache) ==
    IF ~self.cache_ok
    THEN [ret |-> None, entry_at |-> <<>>]
    ELSE [ret |-> Some(entry_at(cache, self.cache_index)), entry_at |-> <<self.cache_index>>]

CacheInit ==
    /\ cached = [i \in Items |-> CachedRenderingData_default]
    /\ rendering_cache = <<>>
    /\ primitive = [i \in Items |-> "NoContents"]
    /\ last_read = [item |-> 0]

\* The backend materializes the item's primitive: it stores a fresh low-level
\* primitive in its cache, records the slot in cache_index and sets cache_ok.
Materialize(i) ==
    /\ ~cached[i].cache_ok
    /\ Len(rendering_cache) < MaxCache
    /\ rendering_cache' = Append(rendering_cache, primitive[i])
    /\ cached' = [cached EXCEPT ![i] = [cache_index |-> Len(rendering_cache),
                                        cache_ok |-> TRUE]]
    /\ UNCHANGED <<primitive, last_read>>
    /\ UNCHANGED notCache

\* A property the primitive depends on changes: the binding system resets cache_ok.
PropertyChange(i) ==
    /\ \E p \in Primitives \ {primitive[i]} :
           primitive' = [primitive EXCEPT ![i] = p]
    /\ cached' = [cached EXCEPT ![i].cache_ok = FALSE]
    /\ UNCHANGED <<rendering_cache, last_read>>
    /\ UNCHANGED notCache

\* The backend reads the item's cached primitive.
ReadCache(i) ==
    /\ last_read' = [item |-> i, self |-> cached[i],
                     result |-> low_level_rendering_primitive(cached[i], rendering_cache)]
    /\ UNCHANGED <<cached, rendering_cache, primitive>>
    /\ UNCHANGED notCache

(***************************************************************************)
(* PathData: Elements form, build_path and the event iterator              *)
(*                                                                         *)
(* The lyon path builder and path iterator are modelled as lyon 0.15       *)
(* behaves (the version whose builder traits, Build, FlatPathBuilder and   *)
(* SvgBuilder, build_path imports): a builder starts with its current and  *)
(* first position at the origin and no subpath begun; the first edge of a  *)
(* subpath begins it implicitly at the builder's first position.           *)
(* Coordinates are integers; a point is <<x, y>>.                          *)
(***************************************************************************)

MaxElements == 4

Last(seq) == seq[Len(seq)]

\* PathElement
LineTo(x, y) == [element |-> "LineTo", x |-> x, y |-> y]
ArcTo(x, y, radius_x, radius_y) ==
    [element |-> "ArcTo", x |-> x, y |-> y, radius_x |-> radius_x, radius_y |-> radius_y,
     x_rotation |-> 0, large_arc |-> FALSE, sweep |-> FALSE]
Close == [element |-> "Close"]

\* the targets and radii the elements are drawn from
PathPoints == {<<0, 0>>, <<10, 0>>, <<10, 10>>}
PathRadii == {<<0, 0>>, <<0, 5>>, <<5, 5>>}
PathElements ==
    {LineTo(p[1], p[2]) : p \in PathPoints}
    \cup {ArcTo(p[1], p[2], r[1], r[2]) : p \in PathPoints, r \in PathRadii}
    \cup {Close}

\* lyon::path::Path::builder().with_svg()
Builder_new ==
    [points |-> <<>>, verbs |-> <<>>,
     current_position |-> <<0, 0>>, first_position |-> <<0, 0>>,
     need_moveto |-> TRUE, nan |-> FALSE]

\* Builder::end_if_needed: an open subpath is ended before the next begins
Builder_end_if_needed(b) ==
    IF b.verbs /= <<>> /\ Last(b.verbs) \in {"LineTo", "QuadraticTo"}
    THEN [b EXCEPT !.verbs = Append(@, "End")]
    ELSE b

Builder_move_to(b, to) ==
    LET e == Builder_end_if_needed(b)
    IN  [e EXCEPT !.need_moveto = FALSE,
                  !.first_position = to,
                  !.current_position = to,
                  !.points = Append(@, to),
                  !.verbs = Append(@, "Begin")]

Builder_move_to_if_needed(b) ==
    IF b.need_moveto THEN Builder_move_to(b, b.first_position) ELSE b

\* The mutant of line_to: the first edge of a subpath only moves the cursor.
Builder_line_to_as_move(b, to) ==
    IF b.need_moveto
    THEN Builder_move_to(b, to)
    ELSE [b EXCEPT !.points = Append(@, to),
                   !.verbs = Append(@, "LineTo"),
                   !.current_position = to]

\* path_builder.line_to(to)
Builder_line_to(b, to) ==
    LET m == Builder_move_to_if_needed(b)
    IN  [m EXCEPT !.points = Append(@, to),
                  !.verbs = Append(@, "LineTo"),
                  !.current_position = to]

\* path_builder.close()
Builder_close(b) ==
    [b EXCEPT !.verbs = Append(@, "Close"),
              !.current_position = b.first_position,
              !.need_moveto = TRUE]

\* path_builder.current_position()
Builder_current_position(b) == b.current_position

\* SvgArc { from, radii, x_rotation, flags, to }
SvgArc(from, radii, x_rotation, flags, to) ==
    [from |-> from, radii |-> radii, x_rotation |-> x_rotation, flags |-> flags, to |-> to]

\* The mutant of is_straight_line: only the radii are looked at.
is_straight_line_radii_only(svg_arc) ==
    \/ svg_arc.radii[1] = 0
    \/ svg_arc.radii[2] = 0

\* svg_arc.is_straight_line(): a radius of (about) zero, or from == to
is_straight_line(svg_arc) ==
    \/ svg_arc.radii[1] = 0
    \/ svg_arc.radii[2] = 0
    \/ svg_arc.from = svg_arc.to

\* path_builder.arc_to(radii, x_rotation, flags, to): the arc is flattened to
\* curve segments ending at `to`, kept here as one quadratic segment whose
\* control point is the corner between the two ends. The centre of an arc with
\* a zero radius or with from == to is a division by zero: its points are NaN.
Builder_arc_to(b, radii, x_rotation, flags, to) ==
    LET m    == Builder_move_to_if_needed(b)
        from == m.current_position
        ctrl == IF flags.sweep THEN <<to[1], from[2]>> ELSE <<from[1], to[2]>>
    IN  [m EXCEPT !.points = Append(Append(@, ctrl), to),
                  !.verbs = Append(@, "QuadraticTo"),
                  !.current_position = to,
                  !.nan = @ \/ radii[1] = 0 \/ radii[2] = 0 \/ from = to]

\* path_builder.build()
Builder_build(b) ==
    LET e == Builder_end_if_needed(b)
    IN  [points |-> e.points, verbs |-> e.verbs]

\* One iteration of build_path's loop over the elements.
build_path_element(b, element) ==
    IF element.element = "LineTo"
    THEN Builder_line_to(b, <<element.x, element.y>>)
    ELSE IF element.element = "ArcTo"
    THEN LET radii   == <<element.radius_x, element.radius_y>>
             flags   == [large_arc |-> element.large_arc, sweep |-> element.sweep]
             to      == <<element.x, element.y>>
             svg_arc == SvgArc(Builder_current_position(b), radii, element.x_rotation,
                               flags, to)
         IN  IF is_straight_line(svg_arc)
             THEN Builder_line_to(b, to)
             ELSE Builder_arc_to(b, radii, element.x_rotation, flags, to)
    ELSE Builder_close(b)

\* lyon::path::Event
EventBegin(at) == [event |-> "Begin", at |-> at]
EventLine(from, to) == [event |-> "Line", from |-> from, to |-> to]
EventQuadratic(from, ctrl, to) ==
    [event |-> "Quadratic", from |-> from, ctrl |-> ctrl, to |-> to]
EventEnd(last, first, close) ==
    [event |-> "End", last |-> last, first |-> first, close |-> close]

RECURSIVE Path_iter_from(_, _, _, _, _)
\* lyon's Path::iter(): the events of the verbs from `v` on, the points from
\* `p` on, with the iterator's current and first point.
Path_iter_from(path, v, p, current, first) ==
    IF v > Len(path.verbs) THEN <<>>
    ELSE LET verb == path.verbs[v]
         IN  IF verb = "Begin"
             THEN <<EventBegin(path.points[p])>>
                  \o Path_iter_from(path, v + 1, p + 1, path.points[p], path.points[p])
             ELSE IF verb = "LineTo"
             THEN <<EventLine(current, path.points[p])>>
                  \o Path_iter_from(path, v + 1, p + 1, path.points[p], first)
             ELSE IF verb = "QuadraticTo"
             THEN <<EventQuadratic(current, path.points[p], path.points[p + 1])>>
                  \o Path_iter_from(path, v + 1, p + 2, path.points[p + 1], first)
             ELSE <<EventEnd(current, first, verb = "Close")>>
                  \o Path_iter_from(path, v + 1, p, first, first)

Path_iter(path) == Path_iter_from(path, 1, 1, <<0, 0>>, <<0, 0>>)

\* lyon::path::Path::new()
Path_new == [points |-> <<>>, verbs |-> <<>>]

PathInit ==
    /\ elements = <<>>
    /\ path_builder = Builder_new
    /\ path_phase = "building"
    /\ lyon_path = Path_new
    /\ path_events = <<>>

\* build_path's loop takes the next element of the array.
BuildElement ==
    /\ path_phase = "building"
    /\ Len(elements) < MaxElements
    /\ \E element \in PathElements :
          /\ elements' = Append(elements, element)
          /\ path_builder' = build_path_element(path_builder, element)
    /\ UNCHANGED <<path_phase, lyon_path, path_events>>
    /\ UNCHANGED notPath

\* The array is exhausted: build_path returns path_builder.build(), which
\* PathData::iter wraps in a LyonPathIterator with no transform.
BuildPath ==
    /\ path_phase = "building"
    /\ lyon_path' = Builder_build(path_builder)
    /\ path_phase' = "built"
    /\ UNCHANGED <<elements, path_builder, path_events>>
    /\ UNCHANGED notPath

\* LyonPathIterator::iter() on the FromPath variant, run to its end.
IterPath ==
    /\ path_phase = "built"
    /\ path_events' = Path_iter(lyon_path)
    /\ path_phase' = "iterated"
    /\ UNCHANGED <<elements, path_builder, lyon_path>>
    /\ UNCHANGED notPath

(***************************************************************************)
(* f32                                                                     *)
(*                                                                         *)
(* An f32 is kept as a fraction n/d in lowest terms with d > 0; d = 0      *)
(* holds the values that are not finite: 1/0 is +infinity, -1/0 is         *)
(* -infinity and 0/0 is NaN. The operations follow IEEE 754 on these.      *)
(***************************************************************************)

Abs(x) == IF x < 0 THEN -x ELSE x

Sign(x) == IF x > 0 THEN 1 ELSE IF x < 0 THEN -1 ELSE 0

RECURSIVE Gcd(_, _)
Gcd(a, b) == IF b = 0 THEN a ELSE Gcd(b, a % b)

F32(n, d) ==
    IF d = 0 THEN [n |-> Sign(n), d |-> 0]
    ELSE LET g == Gcd(Abs(n), d) IN [n |-> n \div g, d |-> d \div g]

FromInt(x) == [n |-> x, d |-> 1]

\* f32::MAX, the largest finite f32, stands above every other finite value of
\* the model; f32::MIN is its negation.
F32MaxValue == 1000000
f32_MAX == FromInt(F32MaxValue)
f32_MIN == FromInt(-F32MaxValue)
f32_INFINITY == [n |-> 1, d |-> 0]
f32_NAN == [n |-> 0, d |-> 0]

is_nan(a) == a.d = 0 /\ a.n = 0
is_finite(a) == a.d > 0
is_infinite(a) == a.d = 0 /\ a.n /= 0

FNeg(a) == [n |-> -a.n, d |-> a.d]

FAdd(a, b) ==
    IF a.d = 0 /\ b.d = 0
    THEN IF a.n = b.n THEN a ELSE f32_NAN
    ELSE F32(a.n * b.d + b.n * a.d, a.d * b.d)

FSub(a, b) == FAdd(a, FNeg(b))

FMul(a, b) == F32(a.n * b.n, a.d * b.d)

\* 1 / b; a zero is the positive zero
FRecip(b) ==
    IF b.n > 0 THEN F32(b.d, b.n)
    ELSE IF b.n < 0 THEN F32(-b.d, -b.n)
    ELSE IF b.d > 0 THEN f32_INFINITY ELSE f32_NAN

FDiv(a, b) == FMul(a, FRecip(b))

\* a < b; every comparison with NaN is false
FLess(a, b) ==
    IF is_nan(a) \/ is_nan(b) THEN FALSE
    ELSE IF a.d = 0 /\ b.d = 0 THEN a.n < b.n
    ELSE a.n * b.d < b.n * a.d

FLessEq(a, b) == ~is_nan(a) /\ ~is_nan(b) /\ ~FLess(b, a)

\* f32::min: when one argument is NaN the other is returned
f32_min(a, b) ==
    IF is_nan(a) THEN b ELSE IF is_nan(b) THEN a ELSE IF FLess(b, a) THEN b ELSE a

\* Point2D::min and Point2D::max compare with <= and >=
approxord_min(x, y) == IF FLessEq(x, y) THEN x ELSE y
approxord_max(x, y) == IF FLessEq(y, x) THEN x ELSE y

Point(x, y) == <<FromInt(x), FromInt(y)>>
Point_min(p, q) == <<approxord_min(p[1], q[1]), approxord_min(p[2], q[2])>>
Point_max(p, q) == <<approxord_max(p[1], q[1]), approxord_max(p[2], q[2])>>

(***************************************************************************)
(* LayoutInfo                                                              *)
(***************************************************************************)

LayoutInfo(min_width, max_width, min_height, max_height) ==
    [min_width |-> min_width, max_width |-> max_width,
     min_height |-> min_height, max_height |-> max_height]

LayoutInfo_default_infinite ==
    LayoutInfo(FromInt(0), f32_INFINITY, FromInt(0), f32_INFINITY)

\* impl Default for LayoutInfo
LayoutInfo_default == LayoutInfo(FromInt(0), f32_MAX, FromInt(0), f32_MAX)

(***************************************************************************)
(* PathData: Events form, LyonPathIterator and fitted                      *)
(*                                                                         *)
(* From here on a point is a pair of f32. The bounding rectangle and the   *)
(* fit of lyon_algorithms are modelled for the events Begin, Line and End. *)
(***************************************************************************)

MaxEvents == 4
MaxCoordinates == 5
MaxIterElements == 2
MaxFitEvents == 3
MaxFitElements == 2
MaxFitCoordinates == 3
MaxRuns == 2
MaxFits == 2

Panic == [tag |-> "panic"]

\* PathEvent
PathEvents == {"Begin", "Line", "Quadratic", "Cubic", "EndOpen", "EndClosed"}

EventCubic(from, ctrl1, ctrl2, to) ==
    [event |-> "Cubic", from |-> from, ctrl1 |-> ctrl1, ctrl2 |-> ctrl2, to |-> to]

\* PathData
PathData_None == [form |-> "None", elements |-> <<>>, events |-> <<>>, coordinates |-> <<>>]
PathData_Elements(elems) ==
    [form |-> "Elements", elements |-> elems, events |-> <<>>, coordinates |-> <<>>]
PathData_Events(events, coordinates) ==
    [form |-> "Events", elements |-> <<>>, events |-> events, coordinates |-> coordinates]

\* the sequences of length at most n over S
SeqsUpTo(S, n) == UNION {[1 .. k -> S] : k \in 0 .. n}

\* The coordinate arrays are the prefixes of two walks: around a square and
\* back to its first corner, and along its diagonal with every point doubled.
CoordinateWalks ==
    {<<Point(0, 0), Point(40, 0), Point(40, 40), Point(0, 40), Point(0, 0), Point(40, 0)>>,
     <<Point(0, 0), Point(0, 0), Point(40, 40), Point(40, 40), Point(0, 40), Point(0, 40)>>}
CoordinateArrays(n) == {SubSeq(w, 1, k) : w \in CoordinateWalks, k \in 0 .. n}

\* the PathData values iteration starts from
IterPathData ==
    {PathData_None}
    \cup {PathData_Elements(es) : es \in SeqsUpTo(PathElements, MaxIterElements)}
    \cup {PathData_Events(evs, cs) : evs \in SeqsUpTo(PathEvents, MaxEvents),
                                     cs \in CoordinateArrays(MaxCoordinates)}

\* The PathData values that are fitted: lines and closed subpaths only.
FitElements == {LineTo(10, 0), LineTo(10, 10), ArcTo(0, 10, 0, 5), Close}
FitEvents == {"Begin", "Line", "EndClosed"}
FitPathData ==
    {PathData_None}
    \cup {PathData_Elements(es) : es \in SeqsUpTo(FitElements, MaxFitElements)}
    \cup {PathData_Events(evs, cs) : evs \in SeqsUpTo(FitEvents, MaxFitEvents),
                                     cs \in CoordinateArrays(MaxFitCoordinates)}

\* the target sizes handed to fitted
FitSizes == {<<0, 0>>, <<-40, 0>>, <<40, 0>>, <<80, 40>>}

\* The event with f applied to each of its points.
Event_map(ev, f(_)) ==
    IF ev.event = "Begin" THEN EventBegin(f(ev.at))
    ELSE IF ev.event = "Line" THEN EventLine(f(ev.from), f(ev.to))
    ELSE IF ev.event = "Quadratic" THEN EventQuadratic(f(ev.from), f(ev.ctrl), f(ev.to))
    ELSE IF ev.event = "Cubic"
    THEN EventCubic(f(ev.from), f(ev.ctrl1), f(ev.ctrl2), f(ev.to))
    ELSE EventEnd(f(ev.last), f(ev.first), ev.close)

\* PathData::build_path: the loop over the elements, then path_builder.build()
RECURSIVE build_path_from(_, _, _)
build_path_from(b, elems, k) ==
    IF k > Len(elems) THEN Builder_build(b)
    ELSE build_path_from(build_path_element(b, elems[k]), elems, k + 1)

build_path(elems) == build_path_from(Builder_new, elems, 1)

\* the events of a lyon Path, its points as f32
Path_events(path) ==
    LET ToPoint(p) == Point(p[1], p[2])
        evs == Path_iter(path)
    IN  [k \in 1 .. Len(evs) |-> Event_map(evs[k], ToPoint)]

\* ToLyonPathEventIterator { events_it, coordinates_it, first, last }: the
\* two slice iterators are kept as the numbers of entries they have passed.
ToLyonPathEventIterator(events, coordinates) ==
    [events |-> events, coordinates |-> coordinates,
     events_it |-> 0, coordinates_it |-> 0,
     first |-> IF coordinates = <<>> THEN None ELSE Some(coordinates[1]),
     last |-> IF coordinates = <<>> THEN None ELSE Some(Last(coordinates))]

\* the number of coordinates_it.next() calls in the arm of each event
coordinates_taken(event) ==
    IF event = "Begin" THEN 1
    ELSE IF event = "Line" THEN 2
    ELSE IF event = "Quadratic" THEN 3
    ELSE IF event = "Cubic" THEN 4
    ELSE 0

\* The mutant of ToLyonPathEventIterator::next: an End event reads `first`
\* from the coordinate cursor.
ToLyonPathEventIterator_next_cursor(self) ==
    IF self.events_it >= Len(self.events)
    THEN [self |-> self, item |-> None]
    ELSE LET event == self.events[self.events_it + 1]
             n     == IF event \in {"EndOpen", "EndClosed"} THEN 1
                      ELSE coordinates_taken(event)
             c(k)  == self.coordinates[self.coordinates_it + k]
             after == [self EXCEPT !.events_it = @ + 1,
                                   !.coordinates_it = @ + n]
         IN  IF self.coordinates_it + n > Len(self.coordinates)
                \/ self.coordinates = <<>>
             THEN [self |-> after, item |-> Panic]
             ELSE [self |-> after,
                   item |-> Some(
                      IF event = "Begin" THEN EventBegin(c(1))
                      ELSE IF event = "Line" THEN EventLine(c(1), c(2))
                      ELSE IF event = "Quadratic" THEN EventQuadratic(c(1), c(2), c(3))
                      ELSE IF event = "Cubic" THEN EventCubic(c(1), c(2), c(3), c(4))
                      ELSE EventEnd(self.last.value, c(1), event = "EndClosed"))]

\* The mutant of ToLyonPathEventIterator::next: an End event takes as `last`
\* the coordinate the cursor passed last.
ToLyonPathEventIterator_next_last_consumed(self) ==
    IF self.events_it >= Len(self.events)
    THEN [self |-> self, item |-> None]
    ELSE LET event == self.events[self.events_it + 1]
             n     == coordinates_taken(event)
             c(k)  == self.coordinates[self.coordinates_it + k]
             after == [self EXCEPT !.events_it = @ + 1,
                                   !.coordinates_it = @ + n]
         IN  IF event \in {"EndOpen", "EndClosed"}
             THEN IF self.coordinates_it = 0
                  THEN [self |-> after, item |-> Panic]
                  ELSE [self |-> after,
                        item |-> Some(EventEnd(self.coordinates[self.coordinates_it],
                                               self.first.value,
                                               event = "EndClosed"))]
             ELSE IF self.coordinates_it + n > Len(self.coordinates)
             THEN [self |-> [after EXCEPT !.coordinates_it = Len(self.coordinates)],
                   item |-> Panic]
             ELSE [self |-> after,
                   item |-> Some(
                      IF event = "Begin" THEN EventBegin(c(1))
                      ELSE IF event = "Line" THEN EventLine(c(1), c(2))
                      ELSE IF event = "Quadratic" THEN EventQuadratic(c(1), c(2), c(3))
                      ELSE EventCubic(c(1), c(2), c(3), c(4)))]

\* ToLyonPathEventIterator::next. unwrap() of a missing coordinate, or of the
\* first or last of an empty array, panics.
ToLyonPathEventIterator_next(self) ==
    IF self.events_it >= Len(self.events)
    THEN [self |-> self, item |-> None]
    ELSE LET event == self.events[self.events_it + 1]
             n     == coordinates_taken(event)
             c(k)  == self.coordinates[self.coordinates_it + k]
             after == [self EXCEPT !.events_it = @ + 1,
                                   !.coordinates_it = @ + n]
         IN  IF event \in {"EndOpen", "EndClosed"}
             THEN IF self.first = None \/ self.last = None
                  THEN [self |-> after, item |-> Panic]
                  ELSE [self |-> after,
                        item |-> Some(EventEnd(self.last.value, self.first.value,
                                               event = "EndClosed"))]
             ELSE IF self.coordinates_it + n > Len(self.coordinates)
             THEN [self |-> [after EXCEPT !.coordinates_it = Len(self.coordinates)],
                   item |-> Panic]
             ELSE [self |-> after,
                   item |-> Some(
                      IF event = "Begin" THEN EventBegin(c(1))
                      ELSE IF event = "Line" THEN EventLine(c(1), c(2))
                      ELSE IF event = "Quadratic" THEN EventQuadratic(c(1), c(2), c(3))
                      ELSE EventCubic(c(1), c(2), c(3), c(4)))]

\* lyon::math::Transform, a scale about a centre followed by a translation:
\* p -> (p.x * m11 + m31, p.y * m22 + m32)
Transform(m11, m22, m31, m32) == [m11 |-> m11, m22 |-> m22, m31 |-> m31, m32 |-> m32]

transform_point(t, p) ==
    <<FAdd(FMul(p[1], t.m11), t.m31), FAdd(FMul(p[2], t.m22), t.m32)>>

\* Event::transformed(&transform)
Event_transformed(ev, t) ==
    LET Apply(p) == transform_point(t, p) IN Event_map(ev, Apply)

\* LyonPathIterator { it, transform }
LyonPathIterator(variant, path, events, coordinates, transform) ==
    [variant |-> variant, path |-> path, events |-> events,
     coordinates |-> coordinates, transform |-> transform]

\* PathData::iter
PathData_iter(self) ==
    IF self.form = "None"
    THEN LyonPathIterator("FromPath", Path_new, <<>>, <<>>, None)
    ELSE IF self.form = "Elements"
    THEN LyonPathIterator("FromPath", build_path(self.elements), <<>>, <<>>, None)
    ELSE LyonPathIterator("FromEvents", Path_new, self.events, self.coordinates, None)

\* The boxed iterator LyonPathIterator::iter returns: the iterator over the
\* path's events (path.iter(), kept as the events and the number passed) or
\* over the event and coordinate arrays, and the transform to apply.
EventIterator(variant, events, passed, it, transform) ==
    [variant |-> variant, path_events |-> events, passed |-> passed,
     it |-> it, transform |-> transform]

\* LyonPathIterator::apply_transform
apply_transform(self, event_it) == [event_it EXCEPT !.transform = self.transform]

\* The mutant of LyonPathIterator::iter: the iterator goes on where the one
\* returned before stopped.
LyonPathIterator_iter_resumed(self) ==
    IF boxed_iter /= None
    THEN apply_transform(self, boxed_iter.value)
    ELSE IF self.variant = "FromPath"
    THEN apply_transform(self,
             EventIterator("FromPath", Path_events(self.path), 0,
                           ToLyonPathEventIterator(<<>>, <<>>), None))
    ELSE apply_transform(self,
             EventIterator("FromEvents", <<>>, 0,
                           ToLyonPathEventIterator(self.events, self.coordinates), None))

\* LyonPathIterator::iter
LyonPathIterator_iter(self) ==
    IF self.variant = "FromPath"
    THEN apply_transform(self,
             EventIterator("FromPath", Path_events(self.path), 0,
                           ToLyonPathEventIterator(<<>>, <<>>), None))
    ELSE apply_transform(self,
             EventIterator("FromEvents", <<>>, 0,
                           ToLyonPathEventIterator(self.events, self.coordinates), None))

\* next() of the boxed iterator; TransformedLyonPathIterator::next maps the
\* inner iterator's event through the transform.
EventIterator_next(self) ==
    LET inner ==
            IF self.variant = "FromPath"
            THEN IF self.passed >= Len(self.path_events)
                 THEN [self |-> self, item |-> None]
                 ELSE [self |-> [self EXCEPT !.passed = @ + 1],
                       item |-> Some(self.path_events[self.passed + 1])]
            ELSE LET r == ToLyonPathEventIterator_next(self.it)
                 IN  [self |-> [self EXCEPT !.it = r.self], item |-> r.item]
    IN  IF inner.item.tag = "Some" /\ self.transform /= None
        THEN [self |-> inner.self,
              item |-> Some(Event_transformed(inner.item.value, self.transform.value))]
        ELSE inner

\* The iterator run to its end: the events it yields, and whether it panicked.
RECURSIVE collect_from(_, _)
collect_from(it, events) ==
    LET r == EventIterator_next(it)
    IN  IF r.item = None THEN [events |-> events, panic |-> FALSE]
        ELSE IF r.item = Panic THEN [events |-> events, panic |-> TRUE]
        ELSE collect_from(r.self, Append(events, r.item.value))

collect(it) == collect_from(it, <<>>)

\* Rect { origin, size }
Rect(origin, size) == [origin |-> origin, size |-> size]
Rect_zero == Rect(Point(0, 0), Point(0, 0))
Rect_from_size(width, height) == Rect(Point(0, 0), Point(width, height))
Rect_max(r) == <<FAdd(r.origin[1], r.size[1]), FAdd(r.origin[2], r.size[2])>>

\* TightBoundingRect::min_max over the events from the k-th on: Begin counts
\* its point, Line its end point, End nothing.
RECURSIVE min_max(_, _, _, _)
min_max(events, k, min, max) ==
    IF k > Len(events) THEN [min |-> min, max |-> max]
    ELSE LET ev == events[k]
         IN  IF ev.event = "Begin"
             THEN min_max(events, k + 1, Point_min(min, ev.at), Point_max(max, ev.at))
             ELSE IF ev.event = "Line"
             THEN min_max(events, k + 1, Point_min(min, ev.to), Point_max(max, ev.to))
             ELSE min_max(events, k + 1, min, max)

\* lyon::algorithms::aabb::bounding_rect: the zero rectangle for no event
bounding_rect(events) ==
    LET mm == min_max(events, 1, <<f32_MAX, f32_MAX>>, <<f32_MIN, f32_MIN>>)
    IN  IF mm.min = <<f32_MAX, f32_MAX>> THEN Rect_zero
        ELSE Rect(mm.min, <<FSub(mm.max[1], mm.min[1]), FSub(mm.max[2], mm.min[2])>>)

\* Point2D::lerp(other, 0.5)
lerp_half(p, q) ==
    LET half == F32(1, 2)
    IN  <<FAdd(FMul(half, p[1]), FMul(half, q[1])),
          FAdd(FMul(half, p[2]), FMul(half, q[2]))>>

\* lyon::algorithms::fit::fit_rectangle(src, dst, FitStyle::Min): move the
\* centre of src to the origin, scale by the lesser of the two ratios, move
\* the origin to the centre of dst.
fit_rectangle(src_rect, dst_rect) ==
    LET scale_x    == FDiv(dst_rect.size[1], src_rect.size[1])
        scale_y    == FDiv(dst_rect.size[2], src_rect.size[2])
        s          == f32_min(scale_x, scale_y)
        src_center == lerp_half(src_rect.origin, Rect_max(src_rect))
        dst_center == lerp_half(dst_rect.origin, Rect_max(dst_rect))
    IN  Transform(s, s,
                  FAdd(FMul(FNeg(src_center[1]), s), dst_center[1]),
                  FAdd(FMul(FNeg(src_center[2]), s), dst_center[2]))

\* The mutant of fitted: it fits for every size.
LyonPathIterator_fitted_always(self, width, height) ==
    LET run == collect(LyonPathIterator_iter(self))
    IN  IF run.panic THEN Panic
        ELSE [self EXCEPT !.transform =
                 Some(fit_rectangle(bounding_rect(run.events),
                                    Rect_from_size(width, height)))]

\* LyonPathIterator::fitted; it panics where the iteration, which
\* bounding_rect runs to the end, panics.
LyonPathIterator_fitted(self, width, height) ==
    IF width > 0 \/ height > 0
    THEN LET run == collect(LyonPathIterator_iter(self))
         IN  IF run.panic THEN Panic
             ELSE [self EXCEPT !.transform =
                      Some(fit_rectangle(bounding_rect(run.events),
                                         Rect_from_size(width, height)))]
    ELSE self

IterRest ==
    /\ path_data = PathData_None
    /\ lyon_path_iterator = None
    /\ boxed_iter = None
    /\ yielded = <<>>
    /\ iter_status = "none"
    /\ iter_runs = <<>>
    /\ fits = <<>>

\* path_data.iter()
PathDataIter ==
    /\ lyon_path_iterator = None
    /\ lyon_path_iterator' = Some(PathData_iter(path_data))
    /\ UNCHANGED <<path_data, boxed_iter, yielded, iter_status, iter_runs, fits>>
    /\ UNCHANGED notIter

\* An iteration that was begun, to be kept when the next one begins.
Run(events, status) == [events |-> events, status |-> status]

\* lyon_path_iterator.iter(): a new boxed iterator; the one before, run to the
\* end or not, is dropped.
Iter ==
    /\ lyon_path_iterator /= None
    /\ iter_status /= "panic"
    /\ Len(iter_runs) + (IF iter_status = "none" THEN 0 ELSE 1) < MaxRuns
    /\ boxed_iter' = Some(LyonPathIterator_iter(lyon_path_iterator.value))
    /\ yielded' = <<>>
    /\ iter_status' = "live"
    /\ iter_runs' = IF iter_status = "none" THEN iter_runs
                    ELSE Append(iter_runs, Run(yielded, iter_status))
    /\ UNCHANGED <<path_data, lyon_path_iterator, fits>>
    /\ UNCHANGED notIter

\* next() on the boxed iterator
NextEvent ==
    /\ iter_status = "live"
    /\ LET r == EventIterator_next(boxed_iter.value)
       IN  /\ boxed_iter' = Some(r.self)
           /\ yielded' = IF r.item.tag = "Some" THEN Append(yielded, r.item.value)
                         ELSE yielded
           /\ iter_status' = IF r.item = None THEN "end"
                             ELSE IF r.item = Panic THEN "panic"
                             ELSE "live"
    /\ UNCHANGED <<path_data, lyon_path_iterator, iter_runs, fits>>
    /\ UNCHANGED notIter

\* A fitted call that was made: its arguments, the transform and the events
\* of the iterator it was made on, and whether it panicked.
Fit(width, height, transform, events, panic) ==
    [width |-> width, height |-> height, transform |-> transform,
     events |-> events, panic |-> panic]

\* lyon_path_iterator = lyon_path_iterator.fitted(width, height). fitted takes
\* the LyonPathIterator by value, which a boxed iterator still in use borrows:
\* the call is made when none is.
Fitted ==
    /\ lyon_path_iterator /= None
    /\ iter_status \in {"none", "end"}
    /\ Len(fits) < MaxFits
    /\ LET self == lyon_path_iterator.value
           was  == collect(LyonPathIterator_iter(self))
       IN  \E size \in FitSizes :
              LET r == LyonPathIterator_fitted(self, size[1], size[2])
              IN  /\ fits' = Append(fits, Fit(size[1], size[2], self.transform,
                                              was.events, r = Panic))
                  /\ lyon_path_iterator' = IF r = Panic THEN lyon_path_iterator
                                           ELSE Some(r)
                  /\ iter_status' = IF r = Panic THEN "panic" ELSE "none"
    /\ boxed_iter' = None
    /\ yielded' = <<>>
    /\ iter_runs' = <<>>
    /\ UNCHANGED path_data
    /\ UNCHANGED notIter

LayoutRest ==
    /\ layout_info = LayoutInfo_default
    /\ layout_src = "default"
    /\ layout_was = "default"

\* the f32 values layout constraints are drawn from
SampleF32 == {FromInt(0), FromInt(1), FromInt(100), f32_MAX, f32_INFINITY}

\* An item's layouting_info(), or a component's layout_info(), returns the
\* constraints it wants.
LayoutingInfo ==
    /\ \E lo_w, hi_w, lo_h, hi_h \in SampleF32 :
          layout_info' = LayoutInfo(lo_w, hi_w, lo_h, hi_h)
    /\ layout_src' = "layouting_info"
    /\ layout_was' = layout_src
    /\ UNCHANGED notLayout

\* LayoutInfo::default()
LayoutInfoDefault ==
    /\ layout_info' = LayoutInfo_default
    /\ layout_src' = "default"
    /\ layout_was' = layout_src
    /\ UNCHANGED notLayout

(***************************************************************************)
(* The item tree and its traversal                                         *)
(*                                                                         *)
(* A component is named by its place: <<>> is the root component, and      *)
(* c \o <<r, k>> is the k-th child component of region r of component c.   *)
(* The root component's tree is any well-formed encoding of up to MaxNodes *)
(* nodes; the child components of its regions ("rows") and the child       *)
(* components of a row's region ("cells") have the fixed trees RowTree and *)
(* CellTree. Node indices count from 0, as in the code.                    *)
(***************************************************************************)

MaxNodes == 4
MaxModel == 3
MaxInner == 1

\* ItemTreeNode
Item(chilren_count, children_index) ==
    [node |-> "Item", chilren_count |-> chilren_count, children_index |-> children_index]
DynamicTree(index) == [node |-> "DynamicTree", index |-> index]

\* node `index` of an item tree
NodeAt(tree, index) == tree[index + 1]

\* The encodings of the trees of n nodes. parent[j] is the parent of node j:
\* children lie strictly forward of their parent and the children of one node
\* are contiguous, so every node but the root lies in exactly one child range.
ParentMaps(n) ==
    {parent \in [1 .. n - 1 -> 0 .. n - 2] :
        /\ \A j \in 1 .. n - 1 : parent[j] < j
        /\ \A j, l \in 1 .. n - 1 :
              (j < l /\ parent[j] = parent[l]) =>
                  \A m \in j .. l : parent[m] = parent[j]}

ChildrenOf(n, parent, i) == {j \in 1 .. n - 1 : parent[j] = i}

LeavesOf(n, parent) == {j \in 1 .. n - 1 : ChildrenOf(n, parent, j) = {}}

Min(S) == CHOOSE x \in S : \A y \in S : x <= y

\* The encoding of the tree `parent` whose leaves in `dyn` are DynamicTree
\* placeholders, numbered in array order; an item without children points
\* past the end of the array.
MkTree(n, parent, dyn) ==
    [k \in 1 .. n |->
        LET i == k - 1
        IN  IF i \in dyn
            THEN DynamicTree(Cardinality({d \in dyn : d < i}))
            ELSE IF ChildrenOf(n, parent, i) = {}
            THEN Item(0, n)
            ELSE Item(Cardinality(ChildrenOf(n, parent, i)),
                      Min(ChildrenOf(n, parent, i)))]

WellFormedTrees ==
    UNION {UNION {{MkTree(n, parent, dyn) : dyn \in SUBSET LeavesOf(n, parent)} :
                  parent \in ParentMaps(n)} :
           n \in 1 .. MaxNodes}

\* the tree of a row: an item whose two children are an item and a region
RowTree == <<Item(2, 1), Item(0, 3), DynamicTree(0)>>
\* the tree of a cell: an item with one child item
CellTree == <<Item(1, 1), Item(0, 2)>>

RootComponent == <<>>

TreeOf(component) ==
    IF component = RootComponent THEN item_tree
    ELSE IF Len(component) = 2 THEN RowTree
    ELSE CellTree

\* the model behind region dyn_index of component `base`: the regions of the
\* root component repeat over model.rows, the region of a row over model.cells
ModelCount(base) == IF base = RootComponent THEN model.rows ELSE model.cells

Instance(base, dyn_index, k) == base \o <<dyn_index, k>>

\* the child components region dyn_index of `base` holds before it is brought
\* in line with its model; the regions of rows are instantiated with their row
Instantiated(base, dyn_index) ==
    IF base = RootComponent THEN repeater[dyn_index] ELSE 0

\* crate::item_tree::visit_item_tree: the nodes it visits, in order. Index -1
\* is the root node; an index of an Item is its child range; any other index
\* panics (a DynamicTree, or past the end of the array).
visit_item_tree(base, component, tree, index) ==
    IF index = -1
    THEN [base |-> base, component |-> component, todo |-> <<0>>, panic |-> FALSE]
    ELSE IF index < 0 \/ index >= Len(tree) \/ NodeAt(tree, index).node /= "Item"
    THEN [base |-> base, component |-> component, todo |-> <<>>, panic |-> TRUE]
    ELSE LET n == NodeAt(tree, index)
         IN  [base |-> base, component |-> component,
              todo |-> [c \in 1 .. n.chilren_count |-> n.children_index + c - 1],
              panic |-> FALSE]

\* The mutants of sixtyfps_visit_item_tree: the index is clamped at 0, the
\* index is off by one, the visitor is handed the root component.
sixtyfps_visit_item_tree_clamped(component, tree, index) ==
    visit_item_tree(component, component, tree, IF index < 0 THEN 0 ELSE index)

sixtyfps_visit_item_tree_off_by_one(component, tree, index) ==
    visit_item_tree(component, component, tree, index + 1)

sixtyfps_visit_item_tree_root_component(component, tree, index) ==
    visit_item_tree(component, RootComponent, tree, index)

\* The mutant that walks the child range from its end.
sixtyfps_visit_item_tree_backwards(component, tree, index) ==
    LET v == visit_item_tree(component, component, tree, index)
    IN  [v EXCEPT !.todo = [c \in 1 .. Len(v.todo) |-> v.todo[Len(v.todo) + 1 - c]]]

\* sixtyfps_visit_item_tree: the component is both the base the items are
\* found from and the component handed to the visitor.
sixtyfps_visit_item_tree(component, tree, index) ==
    visit_item_tree(component, component, tree, index)

\* The mutant of the visit_dynamic closure: the region index is dropped.
visit_dynamic_closure_first_region(base, dyn_index) ==
    [base |-> base, dyn_index |-> 0]

\* |a, b, c| visit_dynamic(a.get_ref(), b, c): what reaches the component's
\* visit_dynamic callback
visit_dynamic_closure(base, dyn_index) ==
    [base |-> base, dyn_index |-> dyn_index]

\* A component's visit_children_item: its own tree, walked from itself.
visit_children_item(component, index) ==
    sixtyfps_visit_item_tree(component, TreeOf(component), index)

TreeFrame(component, index, call) ==
    LET v == visit_children_item(component, index)
    IN  [frame |-> "tree", base |-> v.base, component |-> v.component,
         todo |-> v.todo, call |-> call, dyn_index |-> 0, k |-> 0, count |-> 0,
         was |-> 0]

DynamicFrame(base, dyn_index, count, was, call) ==
    [frame |-> "dynamic", base |-> base, component |-> base,
     todo |-> <<>>, call |-> call, dyn_index |-> dyn_index, k |-> 0, count |-> count,
     was |-> was]

Call(component, index, by, visit, dyn_index, k, count, was) ==
    [component |-> component, index |-> index, by |-> by, visit |-> visit,
     dyn_index |-> dyn_index, k |-> k, count |-> count, was |-> was, done |-> FALSE]

\* what the engine did with child node `index` while it served call `call`
Dispatch(call, index, to, dyn_index) ==
    [call |-> call, index |-> index, to |-> to, dyn_index |-> dyn_index]

Top == stack[Len(stack)]
\* The mutant of Pop: the frame that returned stays on the stack.
Pop_kept == stack
Pop == SubSeq(stack, 1, Len(stack) - 1)
ReplaceTop(f) == [stack EXCEPT ![Len(stack)] = f]
Tail1(seq) == SubSeq(seq, 2, Len(seq))

TreeInit ==
    /\ item_tree \in WellFormedTrees
    /\ model \in [rows : 0 .. MaxModel, cells : 0 .. MaxInner]
    /\ repeater = [r \in 0 .. MaxNodes - 2 |-> 0]
    /\ stack = <<>>
    /\ calls = <<>>
    /\ visited = <<>>
    /\ dispatched = <<>>
    /\ pc = "idle"

\* The state of the item tree while another part of the model is exercised.
TreeRest ==
    /\ item_tree = <<Item(0, 1)>>
    /\ model = [rows |-> 0, cells |-> 0]
    /\ repeater = [r \in 0 .. MaxNodes - 2 |-> 0]
    /\ stack = <<>>
    /\ calls = <<>>
    /\ visited = <<>>
    /\ dispatched = <<>>
    /\ pc = "idle"

\* A traversal starts: visit_children_item(root component, -1, visitor).
Start ==
    /\ pc \in {"idle", "done"}
    /\ pc' = "running"
    /\ calls' = <<Call(RootComponent, -1, "start", 0, 0, 0, 0, 0)>>
    /\ visited' = <<>>
    /\ dispatched' = <<>>
    /\ stack' = <<TreeFrame(RootComponent, -1, 1)>>
    /\ UNCHANGED <<item_tree, model, repeater>>
    /\ UNCHANGED notTree

\* The next node is an Item: visitor.visit_item(component, idx, item), and the
\* visitor descends with visit_children_item(component, idx, visitor) on the
\* component and index it received.
VisitItem ==
    /\ pc = "running"
    /\ Top.frame = "tree"
    /\ Top.todo /= <<>>
    /\ LET f   == Top
           idx == f.todo[1]
       IN  /\ idx < Len(TreeOf(f.base))
           /\ NodeAt(TreeOf(f.base), idx).node = "Item"
           /\ visited' = Append(visited,
                  [component |-> f.component, index |-> idx,
                   item |-> <<f.base, idx>>, call |-> f.call])
           /\ dispatched' = Append(dispatched, Dispatch(f.call, idx, "visit_item", 0))
           /\ calls' = Append(calls,
                  Call(f.component, idx, "visitor", Len(visited) + 1, 0, 0, 0, 0))
           /\ LET next == TreeFrame(f.component, idx, Len(calls) + 1)
                  panics == visit_children_item(f.component, idx).panic
              IN  /\ stack' = Append(ReplaceTop([f EXCEPT !.todo = Tail1(@)]), next)
                  /\ pc' = IF panics THEN "panic" ELSE "running"
    /\ UNCHANGED <<item_tree, model, repeater>>
    /\ UNCHANGED notTree

\* The next node is a DynamicTree: visit_dynamic(base, visitor, index). The
\* component brings the region's child components in line with its model.
VisitDynamic ==
    /\ pc = "running"
    /\ Top.frame = "tree"
    /\ Top.todo /= <<>>
    /\ LET f   == Top
           idx == f.todo[1]
       IN  /\ idx < Len(TreeOf(f.base))
           /\ NodeAt(TreeOf(f.base), idx).node = "DynamicTree"
           /\ LET d == visit_dynamic_closure(f.base, NodeAt(TreeOf(f.base), idx).index)
              IN  /\ stack' = Append(ReplaceTop([f EXCEPT !.todo = Tail1(@)]),
                                     DynamicFrame(d.base, d.dyn_index,
                                                  ModelCount(d.base),
                                                  Instantiated(d.base, d.dyn_index),
                                                  f.call))
                  /\ dispatched' = Append(dispatched,
                         Dispatch(f.call, idx, "visit_dynamic", d.dyn_index))
                  /\ repeater' = IF d.base = RootComponent
                                 THEN [repeater EXCEPT ![d.dyn_index] = model.rows]
                                 ELSE repeater
    /\ UNCHANGED <<item_tree, model, calls, visited, pc>>
    /\ UNCHANGED notTree

\* visit_dynamic walks the region's next child component:
\* visit_children_item(child, -1, visitor).
VisitInstance ==
    /\ pc = "running"
    /\ Top.frame = "dynamic"
    /\ Top.k < Top.count
    /\ LET f     == Top
           child == Instance(f.base, f.dyn_index, f.k)
       IN  /\ calls' = Append(calls,
                  Call(child, -1, "dynamic", 0, f.dyn_index, f.k, f.count, f.was))
           /\ stack' = Append(ReplaceTop([f EXCEPT !.k = @ + 1]),
                              TreeFrame(child, -1, Len(calls) + 1))
    /\ UNCHANGED <<item_tree, model, repeater, visited, dispatched, pc>>
    /\ UNCHANGED notTree

\* The frame on top has nothing left to do: the call returns.
Return ==
    /\ pc = "running"
    /\ \/ Top.frame = "tree" /\ Top.todo = <<>>
       \/ Top.frame = "dynamic" /\ Top.k = Top.count
    /\ stack' = Pop
    /\ calls' = IF Top.frame = "tree"
                THEN [calls EXCEPT ![Top.call].done = TRUE]
                ELSE calls
    /\ pc' = IF Len(stack) = 1 THEN "done" ELSE "running"
    /\ UNCHANGED <<item_tree, model, repeater, visited, dispatched>>
    /\ UNCHANGED notTree

\* Between traversals a model gains or loses elements; what the last traversal
\* logged is then out of date.
ModelChange ==
    /\ pc \in {"idle", "done"}
    /\ \E m \in [rows : 0 .. MaxModel, cells : 0 .. MaxInner] :
          /\ m /= model
          /\ model' = m
    /\ pc' = "idle"
    /\ UNCHANGED <<item_tree, repeater, stack, calls, visited, dispatched>>
    /\ UNCHANGED notTree

(***************************************************************************)
(* Specifications                                                          *)
(***************************************************************************)

Init ==
    /\ ColorInit
    /\ CacheInit
    /\ PathInit
    /\ IterRest
    /\ LayoutRest
    /\ TreeInit

\* the initial states of the specifications of the value types
ValueInit ==
    /\ ColorInit
    /\ CacheInit
    /\ PathInit
    /\ IterRest
    /\ LayoutRest
    /\ TreeRest

\* Iteration starts from any of the PathData values of IterPathData.
IterInit ==
    /\ ColorInit
    /\ CacheInit
    /\ PathInit
    /\ path_data \in IterPathData
    /\ lyon_path_iterator = None
    /\ boxed_iter = None
    /\ yielded = <<>>
    /\ iter_status = "none"
    /\ iter_runs = <<>>
    /\ fits = <<>>
    /\ LayoutRest
    /\ TreeRest

IterNext ==
    \/ PathDataIter
    \/ Iter
    \/ NextEvent

IterSpec == IterInit /\ [][IterNext]_vars

FitInit ==
    /\ ColorInit
    /\ CacheInit
    /\ PathInit
    /\ path_data \in FitPathData
    /\ lyon_path_iterator = None
    /\ boxed_iter = None
    /\ yielded = <<>>
    /\ iter_status = "none"
    /\ iter_runs = <<>>
    /\ fits = <<>>
    /\ LayoutRest
    /\ TreeRest

FitNext ==
    \/ PathDataIter
    \/ Iter
    \/ NextEvent
    \/ Fitted

FitSpec == FitInit /\ [][FitNext]_vars

LayoutNext ==
    \/ LayoutingInfo
    \/ LayoutInfoDefault

LayoutSpec == ValueInit /\ [][LayoutNext]_vars

ColorNext ==
    \/ FromArgbEncoded
    \/ FromU32
    \/ FromRgba
    \/ FromRgb
    \/ AsRgbaU8
    \/ AsArgbEncoded

ColorSpec == ValueInit /\ [][ColorNext]_vars

CacheNext ==
    \/ \E i \in Items : Materialize(i)
    \/ \E i \in Items : PropertyChange(i)
    \/ \E i \in Items : ReadCache(i)

CacheSpec == ValueInit /\ [][CacheNext]_vars

PathNext ==
    \/ BuildElement
    \/ BuildPath
    \/ IterPath

PathSpec == ValueInit /\ [][PathNext]_vars

Next ==
    \/ Start
    \/ VisitItem
    \/ VisitDynamic
    \/ VisitInstance
    \/ Return
    \/ ModelChange

Spec == Init /\ [][Next]_vars

\* A traversal is one call that runs on the caller's thread without
\* cancellation: once started, the engine, the component's callbacks and the
\* visitor keep taking their next step. When a traversal starts and when a
\* model changes is up to the application.
Traverse ==
    \/ VisitItem
    \/ VisitDynamic
    \/ VisitInstance
    \/ Return

FairSpec == Init /\ [][Next]_vars /\ WF_vars(Traverse)

(***************************************************************************)
(* Properties                                                              *)
(***************************************************************************)

\* C2: low_level_rendering_primitive returns None whenever cache_ok is false,
\* whatever cache_index holds, and then makes no entry_at lookup at all; it
\* returns Some(entry at cache_index), after exactly that one lookup, only when
\* cache_ok is true.
C2_NoneUnlessCacheOk ==
    last_read.item /= 0 =>
        LET self == last_read.self
            res  == last_read.result
        IN  /\ ~self.cache_ok => (res.ret = None /\ res.entry_at = <<>>)
            /\ res.ret /= None =>
                  /\ self.cache_ok
                  /\ res.entry_at = <<self.cache_index>>
                  /\ self.cache_index < Len(rendering_cache)
                  /\ res.ret = Some(rendering_cache[self.cache_index + 1])

\* A read of an item whose cache_ok is false while its cache_index still holds
\* the non-zero slot of an earlier materialization.
C2_Witness ==
    /\ last_read.item /= 0
    /\ ~last_read.self.cache_ok
    /\ last_read.self.cache_index > 0
    /\ last_read.result.ret = None

\* C3: as long as the backend has written nothing, every item's
\* CachedRenderingData is the default one, cache_ok = false and cache_index = 0,
\* and reading it through low_level_rendering_primitive yields None.
C3_FreshCacheIsNone ==
    rendering_cache = <<>> =>
        /\ \A i \in Items :
              /\ cached[i].cache_ok = FALSE
              /\ cached[i].cache_index = 0
              /\ low_level_rendering_primitive(cached[i], rendering_cache).ret = None
        /\ last_read.item /= 0 => last_read.result.ret = None

\* A read made before any backend write.
C3_Witness ==
    /\ rendering_cache = <<>>
    /\ last_read.item /= 0
    /\ last_read.self = [cache_index |-> 0, cache_ok |-> FALSE]
    /\ last_read.result.ret = None

\* C4: in every step, an item whose cache_ok is true before and after keeps its
\* cache_index and a read of it returns the same entry, the one at that index;
\* a step that materializes an item makes its read return the entry just
\* stored; and an item whose cache_ok is false reads None.
C4_StableUntilReset ==
    [][\A i \in Items :
          LET before == low_level_rendering_primitive(cached[i], rendering_cache)
              after  == low_level_rendering_primitive(cached'[i], rendering_cache')
          IN  /\ (cached[i].cache_ok /\ cached'[i].cache_ok) =>
                    /\ cached'[i].cache_index = cached[i].cache_index
                    /\ after = before
                    /\ after.ret = Some(rendering_cache[cached[i].cache_index + 1])
              /\ (~cached[i].cache_ok /\ cached'[i].cache_ok) =>
                    /\ cached'[i].cache_index = Len(rendering_cache)
                    /\ after.ret = Some(primitive[i])
              /\ ~cached'[i].cache_ok => after.ret = None
              /\ (last_read'.item = i /\ last_read' /= last_read) =>
                    /\ last_read'.result = before
                    /\ cached' = cached /\ rendering_cache' = rendering_cache
      ]_vars

\* An item materialized into a slot other than the first has been read, and is
\* still valid, while another item has been reset by a property change.
C4_Witness ==
    \E i, j \in Items :
        /\ i /= j
        /\ last_read.item = i
        /\ cached[i].cache_ok
        /\ last_read.self = cached[i]
        /\ cached[i].cache_index > 0
        /\ last_read.result.ret = Some(rendering_cache[cached[i].cache_index + 1])
        /\ ~cached[j].cache_ok /\ cached[j].cache_index < Len(rendering_cache)
        /\ Len(rendering_cache) > 1

\* C9: for an encoded value 0xAARRGGBB, from_argb_encoded followed by
\* as_rgba_u8 gives four bytes (r, g, b, a) with a * 2^24 + r * 2^16 + g * 2^8 + b
\* equal to the encoded value; 0xFF102030 gives (0x10, 0x20, 0x30, 0xFF).
C9_ArgbToRgbaBytes ==
    (color_src.ctor = "from_argb_encoded" /\ color_out.fn = "as_rgba_u8") =>
        LET e == color_src.encoded
            t == color_out.value
        IN  /\ \A k \in 1 .. 4 : t[k] \in 0 .. 255
            /\ t[4] * 256 + t[1] = e.hi
            /\ t[2] * 256 + t[3] = e.lo
            /\ e = U32(65296, 8240) => t = <<16, 32, 48, 255>>

\* from_argb_encoded(0xFF102030).as_rgba_u8() has been evaluated.
C9_Witness ==
    /\ color_src = [ctor |-> "from_argb_encoded", encoded |-> U32(65296, 8240)]
    /\ color_out = [fn |-> "as_rgba_u8", value |-> <<16, 32, 48, 255>>]

\* The path of C8: [LineTo(0,0), LineTo(10,0), LineTo(10,10), Close]
C8_Path == <<LineTo(0, 0), LineTo(10, 0), LineTo(10, 10), Close>>

\* C8 as claimed: iterating C8_Path yields exactly [Begin, Line, Line,
\* EndClosed], beginning at (0,0), with the lines ending at (10,0) and (10,10),
\* and the End event closed with first = (0,0) and last = (10,10).
C8_AsClaimed ==
    (path_phase = "iterated" /\ elements = C8_Path) =>
        /\ [k \in 1 .. Len(path_events) |-> path_events[k].event]
              = <<"Begin", "Line", "Line", "End">>
        /\ path_events[1].at = <<0, 0>>
        /\ path_events[2].to = <<10, 0>>
        /\ path_events[3] = EventLine(<<10, 0>>, <<10, 10>>)
        /\ path_events[4] = EventEnd(<<10, 10>>, <<0, 0>>, TRUE)

\* C8, amended: iterating C8_Path yields [Begin, Line, Line, Line, EndClosed]:
\* the path begins at the builder's origin (0,0), every LineTo element, the
\* first one too, yields a Line event from the cursor to its target, and the
\* End event is closed with first = (0,0) and last = (10,10).
C8_EventsOfPath ==
    (path_phase = "iterated" /\ elements = C8_Path) =>
        path_events = <<EventBegin(<<0, 0>>),
                        EventLine(<<0, 0>>, <<0, 0>>),
                        EventLine(<<0, 0>>, <<10, 0>>),
                        EventLine(<<10, 0>>, <<10, 10>>),
                        EventEnd(<<10, 10>>, <<0, 0>>, TRUE)>>

\* C8_Path has been built and iterated.
C8_Witness ==
    /\ path_phase = "iterated"
    /\ elements = C8_Path
    /\ Len(path_events) = 5
    /\ path_events[5].close

\* C10: a step of build_path that takes an ArcTo element whose radii are both
\* 0, or whose target is the builder's current position, appends a straight
\* line to the target (after beginning the subpath where none is begun) and no
\* curve, produces no NaN, and leaves the cursor at the target (x, y).
C10_DegenerateArcIsLine ==
    [][(path_phase = "building" /\ Len(elements') = Len(elements) + 1
        /\ Last(elements').element = "ArcTo"
        /\ \/ Last(elements').radius_x = 0 /\ Last(elements').radius_y = 0
           \/ <<Last(elements').x, Last(elements').y>> = path_builder.current_position)
       =>
       LET to == <<Last(elements').x, Last(elements').y>>
       IN  /\ path_builder'.verbs =
                 path_builder.verbs
                 \o (IF path_builder.need_moveto THEN <<"Begin">> ELSE <<>>)
                 \o <<"LineTo">>
           /\ path_builder'.points =
                 path_builder.points
                 \o (IF path_builder.need_moveto
                     THEN <<path_builder.first_position>> ELSE <<>>)
                 \o <<to>>
           /\ path_builder'.current_position = to
           /\ ~path_builder'.nan
      ]_vars

\* build_path has taken an ArcTo with non-zero radii whose target is the cursor
\* it had reached by an earlier edge, and appended a line for it.
C10_Witness ==
    /\ Len(elements) >= 2
    /\ Last(elements).element = "ArcTo"
    /\ Last(elements).radius_x = 5 /\ Last(elements).radius_y = 5
    /\ <<Last(elements).x, Last(elements).y>> = <<10, 10>>
    /\ elements[Len(elements) - 1] = LineTo(10, 10)
    /\ Last(path_builder.verbs) = "LineTo"
    /\ path_builder.current_position = <<10, 10>>
    /\ ~path_builder.nan

(***************************************************************************)
(* Properties of the traversal                                             *)
(***************************************************************************)

RegionsOf(tree) ==
    {tree[k].index : k \in {l \in 1 .. Len(tree) : tree[l].node = "DynamicTree"}}

ItemIndices(tree) == {i \in 0 .. Len(tree) - 1 : NodeAt(tree, i).node = "Item"}

\* the components alive under the current models
LiveRows == {<<r, k>> : r \in RegionsOf(item_tree), k \in 0 .. model.rows - 1}
LiveCells == {row \o <<0, j>> : row \in LiveRows, j \in 0 .. model.cells - 1}
LiveComponents == {RootComponent} \cup LiveRows \cup LiveCells

\* an item is <<component, index>>
ItemsOf(component) == {<<component, i>> : i \in ItemIndices(TreeOf(component))}
LiveItems == UNION {ItemsOf(c) : c \in LiveComponents}

\* the node whose child range holds node i
ParentNode(tree, i) ==
    CHOOSE p \in ItemIndices(tree) :
        /\ NodeAt(tree, p).children_index <= i
        /\ i < NodeAt(tree, p).children_index + NodeAt(tree, p).chilren_count

\* The parent of an item: the item whose child range holds it or, for the root
\* item of a child component, holds the placeholder of the component's region.
ParentItem(item) ==
    LET c == item[1]
        i == item[2]
    IN  IF i > 0 THEN <<c, ParentNode(TreeOf(c), i)>>
        ELSE LET owner == SubSeq(c, 1, Len(c) - 2)
                 r     == c[Len(c) - 1]
                 d     == CHOOSE x \in 0 .. Len(TreeOf(owner)) - 1 :
                              NodeAt(TreeOf(owner), x) = DynamicTree(r)
             IN  <<owner, ParentNode(TreeOf(owner), d)>>

RECURSIVE Ancestors(_)
Ancestors(item) ==
    IF item = <<RootComponent, 0>> THEN {}
    ELSE {ParentItem(item)} \cup Ancestors(ParentItem(item))

VisitedItems == {visited[n].item : n \in DOMAIN visited}

IsPrefix(s, t) == Len(s) <= Len(t) /\ \A k \in 1 .. Len(s) : s[k] = t[k]

\* C1: during a full traversal from the root no item is visited twice and an
\* item is visited only after all its ancestors; when the traversal is done,
\* every Item node of the root's array, and of every live child component's,
\* has been visited exactly once.
C1_EachItemOnceParentFirst ==
    pc \in {"running", "done"} =>
        /\ \A n \in DOMAIN visited : visited[n].item \in LiveItems
        /\ \A m, n \in DOMAIN visited : m /= n => visited[m].item /= visited[n].item
        /\ \A n \in DOMAIN visited :
              \A a \in Ancestors(visited[n].item) :
                  \E m \in 1 .. n - 1 : visited[m].item = a
        /\ pc = "done" => VisitedItems = LiveItems

\* A traversal is done of a four-node root tree with a region of at least two
\* rows, each with a cell.
C1_Witness ==
    /\ pc = "done"
    /\ Len(item_tree) = 4
    /\ model.rows >= 2 /\ model.cells >= 1
    /\ RegionsOf(item_tree) /= {}
    /\ \E n \in DOMAIN visited : visited[n].index = 3
    /\ \E n \in DOMAIN visited : Len(visited[n].component) = 4

\* the sub-traversals visit_dynamic made for region r of component `owner`
SubTraversals(owner, r) ==
    LET OfRegion(call) ==
            /\ call.by = "dynamic"
            /\ Len(call.component) = Len(owner) + 2
            /\ SubSeq(call.component, 1, Len(owner)) = owner
            /\ call.component[Len(owner) + 1] = r
    IN  SelectSeq(calls, OfRegion)

\* C5: the sub-traversals made for a region are those of its child components
\* 0, 1, ... in model index order, at most one each, and exactly as many as
\* its model has elements once the traversal is done, also when the model has
\* changed since the traversal before; no sub-traversal and no visit is made
\* for a component that is not live.
C5_OneSubTraversalPerElement ==
    pc \in {"running", "done"} =>
        /\ \A j \in DOMAIN calls :
              calls[j].by = "dynamic" => calls[j].component \in LiveComponents
        /\ \A n \in DOMAIN visited : visited[n].component \in LiveComponents
        /\ \A owner \in LiveComponents :
              \A r \in RegionsOf(TreeOf(owner)) :
                  LET sub == SubTraversals(owner, r)
                  IN  /\ Len(sub) <= ModelCount(owner)
                      /\ \A k \in 1 .. Len(sub) :
                            /\ sub[k].component = Instance(owner, r, k - 1)
                            /\ sub[k].index = -1
                      /\ pc = "done" => Len(sub) = ModelCount(owner)

\* A traversal is done in which a region that held three child components
\* found its model shrunk to one element, and made one sub-traversal.
C5_Witness ==
    /\ pc = "done"
    /\ model.rows = 1
    /\ \E j \in DOMAIN calls :
          /\ calls[j].by = "dynamic"
          /\ calls[j].was = 3
          /\ calls[j].count = 1
          /\ Len(SubTraversals(RootComponent, calls[j].dyn_index)) = 1

\* C6: every visit_item call names a live component and the index of an Item
\* node of that component's own tree, the item handed over is the item at
\* that index of that component, and the visit_children_item call the visitor
\* makes with the pair it received visits only children of that item.
C6_VisitorGetsOwnerAndIndex ==
    pc \in {"running", "done"} =>
        \A n \in DOMAIN visited :
            LET v == visited[n]
            IN  /\ v.component \in LiveComponents
                /\ v.index \in ItemIndices(TreeOf(v.component))
                /\ v.item = <<v.component, v.index>>
                /\ \A j \in DOMAIN calls :
                      (calls[j].by = "visitor" /\ calls[j].visit = n) =>
                          /\ calls[j].component = v.component
                          /\ calls[j].index = v.index
                          /\ \A m \in DOMAIN visited :
                                visited[m].call = j =>
                                    /\ visited[m].item \in LiveItems
                                    /\ visited[m].item[2] > 0
                                    /\ ParentItem(visited[m].item) = v.item

\* The child item of a cell, two components below the root, has been visited
\* through the call the visitor made for the cell's root item.
C6_Witness ==
    \E n \in DOMAIN visited :
        /\ pc \in {"running", "done"}
        /\ Len(visited[n].component) = 4
        /\ visited[n].index = 1
        /\ calls[visited[n].call].by = "visitor"
        /\ calls[visited[n].call].index = 0

\* the visit_item calls made by call j itself, not by the calls within it
DirectVisits(j) ==
    LET ByCall(v) == v.call = j
        direct == SelectSeq(visited, ByCall)
    IN  [k \in 1 .. Len(direct) |-> direct[k].item]

\* the items call j is to visit: the root item for index -1, else the Item
\* nodes among children_index .. children_index + chilren_count - 1, in order
ExpectedVisits(j) ==
    LET c == calls[j].component
        i == calls[j].index
        t == TreeOf(c)
        IsItem(x) == NodeAt(t, x).node = "Item"
        range == [k \in 1 .. NodeAt(t, i).chilren_count |->
                      NodeAt(t, i).children_index + k - 1]
        nodes == IF i = -1 THEN <<0>> ELSE SelectSeq(range, IsItem)
    IN  [k \in 1 .. Len(nodes) |-> <<c, nodes[k]>>]

\* C7: a visit_children_item call with index -1 visits the root item of the
\* component and nothing else; a call with index i >= 0 visits the Item nodes
\* of the child range of node i, in order, and nothing else (so index 0
\* visits the children of the root, not the root).
C7_RootOrDirectChildren ==
    pc \in {"running", "done"} =>
        \A j \in DOMAIN calls :
            /\ calls[j].component \in LiveComponents
            /\ calls[j].index \in {-1} \cup ItemIndices(TreeOf(calls[j].component))
            /\ IsPrefix(DirectVisits(j), ExpectedVisits(j))
            /\ calls[j].done => DirectVisits(j) = ExpectedVisits(j)

\* A call with index -1 and a call with index 0 on the root component have
\* both returned, the first after visiting the root item, the second after
\* visiting the root's two or more children.
C7_Witness ==
    /\ Len(calls) >= 2
    /\ calls[1].index = -1 /\ calls[1].done
    /\ DirectVisits(1) = <<<<RootComponent, 0>>>>
    /\ calls[2].index = 0 /\ calls[2].component = RootComponent
    /\ Len(DirectVisits(2)) >= 2
    /\ <<RootComponent, 0>> \notin {DirectVisits(2)[k] : k \in 1 .. Len(DirectVisits(2))}

(***************************************************************************)
(* Properties of LyonPathIterator and LayoutInfo                           *)
(***************************************************************************)

\* the transform the LyonPathIterator held after the k-th fitted call
TransformAfter(k) ==
    IF k < Len(fits) THEN fits[k + 1].transform ELSE lyon_path_iterator.value.transform

\* the events iter() yields now, run to the end
EventsNow == collect(LyonPathIterator_iter(lyon_path_iterator.value)).events

\* the events iter() yielded after the k-th fitted call
EventsAfter(k) == IF k < Len(fits) THEN fits[k + 1].events ELSE EventsNow

\* the events of the underlying path: those of the lyon Path, or those of the
\* event and coordinate arrays
UnderlyingEvents ==
    LET self == lyon_path_iterator.value
    IN  IF self.variant = "FromPath" THEN Path_events(self.path)
        ELSE collect(EventIterator("FromEvents", <<>>, 0,
                         ToLyonPathEventIterator(self.events, self.coordinates),
                         None)).events

\* C11: a fitted(width, height) call that returns has set the transform, to
\* the fit of the bounding rectangle of the events into the size, if width > 0
\* or height > 0, and has left it as it was if both are <= 0; a call with both
\* <= 0 never panics; and an iterator whose transform is None, as it is when
\* it is fresh and after such calls, yields the events of the underlying path
\* unmodified, one for one.
C11_FitsOnlyPositiveSize ==
    /\ \A k \in DOMAIN fits :
          LET f == fits[k]
          IN  IF f.width > 0 \/ f.height > 0
              THEN ~f.panic =>
                      /\ TransformAfter(k) /= None
                      /\ TransformAfter(k) =
                            Some(fit_rectangle(bounding_rect(f.events),
                                               Rect_from_size(f.width, f.height)))
              ELSE /\ ~f.panic
                   /\ TransformAfter(k) = f.transform
                   /\ EventsAfter(k) = f.events
    /\ (lyon_path_iterator /= None /\ iter_status = "end"
        /\ lyon_path_iterator.value.transform = None)
       => yielded = UnderlyingEvents

\* A fresh iterator was fitted to a size with no positive side and then run to
\* the end: it has no transform and has yielded the three or more events of
\* its path.
C11_Witness ==
    /\ Len(fits) = 1
    /\ fits[1].width <= 0 /\ fits[1].height <= 0
    /\ fits[1].width < 0
    /\ lyon_path_iterator.value.transform = None
    /\ iter_status = "end"
    /\ Len(yielded) >= 3
    /\ yielded = fits[1].events

\* C12: when fitted(w, h) with w > 0 or h > 0 is called twice in a row with
\* the same size, the iterator yields after the second call the same events,
\* with the same coordinates, as after the first.
C12_FittedIsIdempotent ==
    \A k \in DOMAIN fits :
        (/\ k + 1 \in DOMAIN fits
         /\ fits[k].width = fits[k + 1].width
         /\ fits[k].height = fits[k + 1].height
         /\ fits[k].width > 0 \/ fits[k].height > 0
         /\ ~fits[k].panic /\ ~fits[k + 1].panic)
        => EventsAfter(k + 1) = EventsAfter(k)

\* the Begin event that begins the subpath the j-th event ends
BeginOf(events, j) ==
    {i \in 1 .. j - 1 :
        /\ events[i].event = "Begin"
        /\ \A m \in i + 1 .. j - 1 : events[m].event \notin {"Begin", "End"}}

\* The events are subpaths one after the other, each from a Begin event to
\* the next End event.
SubpathsBeginAndEnd(events) ==
    /\ events /= <<>>
    /\ events[1].event = "Begin"
    /\ Last(events).event = "End"
    /\ \A k \in 1 .. Len(events) - 1 :
          /\ events[k].event = "End" <=> events[k + 1].event = "Begin"

\* C13: in a completed iteration of a path made of subpaths that each begin
\* with Begin and end with End (for the Events form, with as many coordinates
\* as its events take), every End event with close = true has as `first` the
\* point of the Begin event that began its subpath, also when the path holds
\* more than one subpath.
C13_ClosedSubpathEndsAtBegin ==
    (/\ iter_status = "end"
     /\ SubpathsBeginAndEnd(yielded)
     /\ path_data.form = "Events" =>
            boxed_iter.value.it.coordinates_it = Len(path_data.coordinates))
    => \A j \in DOMAIN yielded :
          (yielded[j].event = "End" /\ yielded[j].close) =>
              /\ BeginOf(yielded, j) /= {}
              /\ \A i \in BeginOf(yielded, j) : yielded[j].first = yielded[i].at

\* C14 as claimed: the default LayoutInfo has min 0 and max +infinity.
C14_AsClaimed ==
    layout_src = "default" =>
        /\ layout_info.min_width = FromInt(0)
        /\ layout_info.min_height = FromInt(0)
        /\ layout_info.max_width = f32_INFINITY
        /\ layout_info.max_height = f32_INFINITY

\* C14, amended: the default LayoutInfo has min_width = min_height = 0 and
\* max_width = max_height = f32::MAX, the largest finite f32: no finite width
\* or height exceeds the maximum, but the maximum is finite, not +infinity,
\* and +infinity exceeds it.
C14_DefaultMaxIsF32Max ==
    layout_src = "default" =>
        /\ layout_info.min_width = FromInt(0)
        /\ layout_info.min_height = FromInt(0)
        /\ layout_info.max_width = f32_MAX
        /\ layout_info.max_height = f32_MAX
        /\ is_finite(layout_info.max_width) /\ is_finite(layout_info.max_height)
        /\ \A v \in SampleF32 :
              is_finite(v) => /\ ~FLess(layout_info.max_width, v)
                              /\ ~FLess(layout_info.max_height, v)
        /\ FLess(layout_info.max_width, f32_INFINITY)
        /\ FLess(layout_info.max_height, f32_INFINITY)

\* LayoutInfo::default() has replaced the constraints an item had returned.
C14_Witness ==
    /\ layout_src = "default"
    /\ layout_info = LayoutInfo_default
    /\ layout_was = "layouting_info"


(***************************************************************************)
(* Properties of the traversal's handling of child nodes                   *)
(***************************************************************************)

\* the child nodes call c of `calls` has to handle, in array order: the root
\* node for index -1, the child range of the item otherwise
ChildRange(c) ==
    LET tree == TreeOf(calls[c].component)
        n    == NodeAt(tree, calls[c].index)
    IN  IF calls[c].index = -1 THEN <<0>>
        ELSE [k \in 1 .. n.chilren_count |-> n.children_index + k - 1]

\* what the engine did while it served call c, in the order it did it
Handled(c) ==
    LET OfCall(d) == d.call = c
    IN  SelectSeq(dispatched, OfCall)

\* the visit_item calls the visitor received while call c was served
VisitedBy(c) ==
    LET OfCall(v) == v.call = c
    IN  SelectSeq(visited, OfCall)

HandledByVisitItem(c) ==
    LET ToVisitor(d) == d.to = "visit_item"
    IN  SelectSeq(Handled(c), ToVisitor)

\* C15: while the children of an item are visited, the child nodes are handled
\* in array order, each of them once: an Item child by one visit_item call
\* and no visit_dynamic call, a DynamicTree child by one visit_dynamic call
\* with the node's region index and no visit_item call for the placeholder.
\* What has been handled so far is a prefix of the child range, and all of it
\* once the call has returned.
C15_EachChildHandledOnceInOrder ==
    \A c \in 1 .. Len(calls) :
        LET tree  == TreeOf(calls[c].component)
            range == ChildRange(c)
            h     == Handled(c)
            v     == VisitedBy(c)
            hv    == HandledByVisitItem(c)
        IN  /\ Len(h) <= Len(range)
            /\ calls[c].done => Len(h) = Len(range)
            /\ \A k \in 1 .. Len(h) :
                  /\ h[k].index = range[k]
                  /\ NodeAt(tree, range[k]).node = "Item" =>
                        h[k].to = "visit_item"
                  /\ NodeAt(tree, range[k]).node = "DynamicTree" =>
                        /\ h[k].to = "visit_dynamic"
                        /\ h[k].dyn_index = NodeAt(tree, range[k]).index
            /\ Len(v) = Len(hv)
            /\ \A k \in 1 .. Len(v) :
                  /\ v[k].index = hv[k].index
                  /\ NodeAt(tree, v[k].index).node = "Item"

\* A finished traversal in which one item had an Item child and, after it, a
\* DynamicTree child for region 1, a region that holds no child component.
C15_Witness ==
    /\ pc = "done"
    /\ model.rows = 0
    /\ \E c \in 1 .. Len(calls) :
          /\ calls[c].index >= 0
          /\ calls[c].done
          /\ Len(ChildRange(c)) >= 2
          /\ \E j, k \in 1 .. Len(Handled(c)) :
                /\ j < k
                /\ Handled(c)[j].to = "visit_item"
                /\ Handled(c)[k].to = "visit_dynamic"
                /\ Handled(c)[k].dyn_index = 1


\* the calls of `calls` that visit the children of an item without children
EmptyRangeCalls == {c \in 1 .. Len(calls) : calls[c].index >= 0 /\ ChildRange(c) = <<>>}

\* A visit of an item with an empty child range invokes neither the visitor
\* nor visit_dynamic, and while it has not returned it is the call on top of
\* the stack with nothing left to do.
EmptyRangeInvokesNothing ==
    \A c \in EmptyRangeCalls :
        /\ Handled(c) = <<>>
        /\ VisitedBy(c) = <<>>
        /\ ~calls[c].done =>
              /\ pc = "running"
              /\ Top.frame = "tree"
              /\ Top.call = c
              /\ Top.todo = <<>>

\* the step taken while such a visit is open is its return
EmptyRangeReturnsAtOnce ==
    \A c \in EmptyRangeCalls :
        ~calls[c].done => (Len(calls') = Len(calls) /\ calls'[c].done)

\* C16: every traversal of a well-formed item tree that has started reaches
\* Done, and a visit of an item with an empty child range ends with its next
\* step without invoking the visitor.
C16_TraversalReachesDone ==
    /\ (pc = "running") ~> (pc = "done")
    /\ []EmptyRangeInvokesNothing
    /\ [][EmptyRangeReturnsAtOnce]_vars

\* A traversal that is Done after it went through a region with rows, the
\* region nested in a row, and items without children.
C16_Witness ==
    /\ pc = "done"
    /\ model.rows >= 2
    /\ model.cells = 1
    /\ \E c \in EmptyRangeCalls : calls[c].done /\ Len(calls[c].component) = 4
    /\ \E c \in EmptyRangeCalls : calls[c].done /\ calls[c].component = RootComponent


(***************************************************************************)
(* Properties of the iteration of an Events-form path                      *)
(***************************************************************************)

\* the number of coordinates the claim gives each event tag
CoordinatesPerTag(tag) ==
    CASE tag = "Begin" -> 1
      [] tag = "Line" -> 2
      [] tag = "Quadratic" -> 3
      [] tag = "Cubic" -> 4
      [] tag = "EndOpen" -> 0
      [] tag = "EndClosed" -> 0

\* the number of coordinates the first k events take by these counts
RECURSIVE CoordinatesOf(_, _)
CoordinatesOf(events, k) ==
    IF k = 0 THEN 0 ELSE CoordinatesOf(events, k - 1) + CoordinatesPerTag(events[k])

\* the points an output event was given from the coordinate sequence, in the
\* order of its fields
PointsOf(ev) ==
    CASE ev.event = "Begin" -> <<ev.at>>
      [] ev.event = "Line" -> <<ev.from, ev.to>>
      [] ev.event = "Quadratic" -> <<ev.from, ev.ctrl, ev.to>>
      [] ev.event = "Cubic" -> <<ev.from, ev.ctrl1, ev.ctrl2, ev.to>>
      [] ev.event = "End" -> <<>>

\* the lyon event of an event tag
EventOfTag(tag) == IF tag \in {"EndOpen", "EndClosed"} THEN "End" ELSE tag

\* The coordinate count of the path_data equals the sum of its events' counts.
CountsMatch ==
    CoordinatesOf(path_data.events, Len(path_data.events)) = Len(path_data.coordinates)

\* An iteration of an Events-form path is in progress or over.
IteratingEvents == path_data.form = "Events" /\ boxed_iter /= None

\* The k-th output event is the k-th input event, with the coordinates that
\* follow those of the events before it; the cursor has passed the
\* coordinates of the events yielded.
ConsumedInSequence ==
    IteratingEvents =>
        /\ \A k \in 1 .. Len(yielded) :
              /\ yielded[k].event = EventOfTag(path_data.events[k])
              /\ PointsOf(yielded[k]) =
                    SubSeq(path_data.coordinates,
                           CoordinatesOf(path_data.events, k - 1) + 1,
                           CoordinatesOf(path_data.events, k))
        /\ iter_status /= "panic" =>
              /\ boxed_iter.value.it.events_it = Len(yielded)
              /\ boxed_iter.value.it.coordinates_it =
                    CoordinatesOf(path_data.events, Len(yielded))

\* The iteration does not fail, and once over it has yielded one event per
\* input event and passed every coordinate.
RunsToTheEnd ==
    /\ iter_status /= "panic"
    /\ iter_status = "end" =>
          /\ Len(yielded) = Len(path_data.events)
          /\ boxed_iter.value.it.coordinates_it = Len(path_data.coordinates)

YieldsEnd ==
    /\ IteratingEvents
    /\ Len(yielded') = Len(yielded) + 1
    /\ Last(yielded').event = "End"

\* C18: every EndOpen and EndClosed event of an Events-form path is emitted
\* with first = the first and last = the last coordinate of the whole
\* coordinate sequence, whatever the number of coordinates consumed so far;
\* emitting it leaves the coordinate cursor where it was; close is false for
\* EndOpen and true for EndClosed.
C18_EndReadsWholeSequence ==
    [][YieldsEnd =>
          /\ Last(yielded').first = path_data.coordinates[1]
          /\ Last(yielded').last = Last(path_data.coordinates)
          /\ Last(yielded').close = (path_data.events[Len(yielded')] = "EndClosed")
          /\ path_data.events[Len(yielded')] \in {"EndOpen", "EndClosed"}
          /\ boxed_iter'.value.it.coordinates_it = boxed_iter.value.it.coordinates_it
      ]_vars

\* An EndOpen event was emitted when some but not all coordinates had been
\* consumed, and the last coordinate of the sequence is neither the one
\* consumed last nor the first.
C18_Witness ==
    /\ IteratingEvents
    /\ yielded /= <<>>
    /\ Last(yielded).event = "End"
    /\ ~Last(yielded).close
    /\ boxed_iter.value.it.coordinates_it \in 1 .. Len(path_data.coordinates) - 1
    /\ Last(yielded).last = Last(path_data.coordinates)
    /\ Last(yielded).last /= path_data.coordinates[boxed_iter.value.it.coordinates_it]
    /\ Last(yielded).last /= Last(yielded).first


(***************************************************************************)
(* Properties of restarting the iteration                                  *)
(***************************************************************************)

\* the iterations begun on the LyonPathIterator value, the current one last
AllRuns ==
    IF iter_status = "none" THEN iter_runs
    ELSE Append(iter_runs, Run(yielded, iter_status))

\* the events of the underlying path as the stored transform maps them
ExpectedEvents ==
    LET t == lyon_path_iterator.value.transform
        u == UnderlyingEvents
    IN  IF t = None THEN u
        ELSE [k \in 1 .. Len(u) |-> Event_transformed(u[k], t.value)]

\* the step is one of an iteration: iter() or next()
IterationStep ==
    /\ boxed_iter' /= None
    /\ <<boxed_iter, yielded, iter_status, iter_runs>>' /=
          <<boxed_iter, yielded, iter_status, iter_runs>>

\* Every iteration begun on the value has yielded a prefix of the same finite
\* sequence, from its first event on, and all of it when it was run to the end.
RunsYieldTheSameEvents ==
    lyon_path_iterator /= None =>
        /\ \A a, b \in DOMAIN AllRuns :
              /\ \/ IsPrefix(AllRuns[a].events, AllRuns[b].events)
                 \/ IsPrefix(AllRuns[b].events, AllRuns[a].events)
              /\ AllRuns[a].status = "end" =>
                    IsPrefix(AllRuns[b].events, AllRuns[a].events)
        /\ \A a \in DOMAIN AllRuns :
              /\ IsPrefix(AllRuns[a].events, ExpectedEvents)
              /\ AllRuns[a].status = "end" => AllRuns[a].events = ExpectedEvents

\* C19: for both forms of path, every iter() call on the same LyonPathIterator
\* value starts from the first event and yields the same finite sequence as
\* the calls before it, whether or not they were run to the end, and no step
\* of an iteration changes the PathData or the stored transform.
C19_IterRestarts ==
    /\ []RunsYieldTheSameEvents
    /\ [][IterationStep =>
             /\ path_data' = path_data
             /\ lyon_path_iterator' = lyon_path_iterator]_vars

\* A fitted iterator over an Events-form path was iterated twice: the first
\* iteration was dropped after two events, the second was run to the end of
\* the three events.
C19_Witness ==
    /\ path_data.form = "Events"
    /\ lyon_path_iterator /= None
    /\ lyon_path_iterator.value.transform /= None
    /\ Len(iter_runs) = 1
    /\ iter_runs[1].status = "live"
    /\ Len(iter_runs[1].events) = 2
    /\ iter_status = "end"
    /\ Len(yielded) = 3
    /\ yielded[1] /= UnderlyingEvents[1]

\* The same for an Elements-form path and an iterator without transform, the
\* first iteration run to its end.
C19_WitnessElements ==
    /\ path_data.form = "Elements"
    /\ lyon_path_iterator /= None
    /\ lyon_path_iterator.value.transform = None
    /\ Len(iter_runs) = 1
    /\ iter_runs[1].status = "end"
    /\ iter_status = "end"
    /\ Len(yielded) >= 3


(***************************************************************************)
(* Properties of the ARGB encoding                                         *)
(***************************************************************************)

\* C20: the ARGB encoding round-trips. as_argb_encoded of the colour
\* from_argb_encoded(e) or Color::from(e) made is e; from_argb_encoded of the
\* encoding of a colour built with from_rgba (or from_rgb) is that colour;
\* Color::from(e) is from_argb_encoded(e); from_rgb(r, g, b) is
\* from_rgba(r, g, b, 0xff).
C20_ArgbRoundTrips ==
    /\ (color_src.ctor \in {"from_argb_encoded", "from"}
        /\ color_out.fn = "as_argb_encoded")
       => color_out.value = color_src.encoded
    /\ (color_src.ctor \in {"from_rgba", "from_rgb"}
        /\ color_out.fn = "as_argb_encoded")
       => /\ from_argb_encoded(color_out.value) = color
          /\ color = [red   |-> color_src.rgba[1], green |-> color_src.rgba[2],
                      blue  |-> color_src.rgba[3], alpha |-> color_src.rgba[4]]
    /\ color_src.ctor = "from" => color = from_argb_encoded(color_src.encoded)
    /\ color_src.ctor = "from_rgb" =>
          /\ color_src.rgba[4] = 255
          /\ color = from_rgba(color_src.rgba[1], color_src.rgba[2],
                               color_src.rgba[3], 255)

\* from_argb_encoded(0xFF102030).as_argb_encoded() has been evaluated and is
\* 0xFF102030 again.
C20_Witness ==
    /\ color_src = [ctor |-> "from_argb_encoded", encoded |-> U32(65296, 8240)]
    /\ color_out = [fn |-> "as_argb_encoded", value |-> U32(65296, 8240)]

\* from_rgba(0x10, 0x20, 0x30, 0x80) has been encoded, as 0x80102030.
C20_WitnessRgba ==
    /\ color_src = [ctor |-> "from_rgba", rgba |-> <<16, 32, 48, 128>>]
    /\ color_out = [fn |-> "as_argb_encoded", value |-> U32(32784, 8240)]

=============================================================================
